---- MODULE Spec2Model ----
(***************************************************************************)
(* Model of the schema-mapping ETL export path of the platform:            *)
(*   utils/etl_utils.py  transform_and_export, apply_transformations       *)
(* A call of transform_and_export is modelled step by step (validation,    *)
(* query, one step per batch fetched, one step per batch processed, the    *)
(* final empty-table check).  Data frames are modelled with their column   *)
(* names, per-column dtypes and rows of cells; the CSV file is modelled as *)
(* the sequence of lines written to it.                                    *)
(***************************************************************************)
EXTENDS Integers, Sequences, FiniteSets, TLC

\* ------------------------------------------------------------------ bounds
MaxRows == 2          \* rows in the source table
MaxCols == 2          \* length of the source / target column lists
MaxChunk == 2         \* largest chunk_size tried
MaxTables == 3         \* tables of the table mapping
MaxBatches == 2       \* batches of an arbitrary batch iterator

\* ------------------------------------------------------- the source table
\* The live table has the columns "id" and "name"; "cost" is a name a
\* mapping may request that the table does not have.
ActualColumns == <<"id", "name">>
SourceNames == {"id", "name", "cost"}
TargetNames == <<"id_produit", "nom_produit", "prix_achat", "extra">>

\* Cells.  A cell is a tuple of strings: its kind and its payload.
Null == <<"null", "">>
Str(s) == <<"str", s>>
IntCell(n) == <<"int", n>>
FloatCell(n) == <<"float", n>>
IsNull(c) == c[1] = "null"

\* Text values a TEXT column of the source table can hold (besides NULL).
DataValues == {"1", "abc", "1.5"}
DataCells == {Null} \cup {Str(s) : s \in DataValues}
RowIds == <<"r1", "r2", "r3", "r4", "r5">>
FillValue == "X"

\* ------------------------------------------------------ sequence helpers
RECURSIVE SeqsUpTo(_, _)
SeqsUpTo(S, n) ==
    IF n = 0 THEN {<<>>}
    ELSE LET shorter == SeqsUpTo(S, n - 1)
         IN  shorter \cup {Append(s, x) : s \in {t \in shorter : Len(t) = n - 1}, x \in S}

Contains(seq, x) == \E i \in 1..Len(seq) : seq[i] = x
Injective(seq) == \A i, j \in 1..Len(seq) : seq[i] = seq[j] => i = j
IndexOf(seq, x) == CHOOSE i \in 1..Len(seq) : seq[i] = x /\ \A j \in 1..(i - 1) : seq[j] # x

RECURSIVE Flatten(_)
Flatten(ss) == IF ss = <<>> THEN <<>> ELSE Head(ss) \o Flatten(Tail(ss))

Min(a, b) == IF a < b THEN a ELSE b

\* ------------------------------------------------------------ data frames
\* A DataFrame: column names, one dtype per column, rows of cells.
\* dtypes: "object" (as read from a TEXT column), "int64", "float64",
\* "Int64" (pandas' nullable integer).
DataFrame(cols, dts, rws) == [columns |-> cols, dtypes |-> dts, rows |-> rws]
ColumnCells(df, i) == [r \in 1..Len(df.rows) |-> df.rows[r][i]]
WithColumn(df, i, cells, dtype) ==
    [df EXCEPT !.dtypes[i] = dtype,
               !.rows = [r \in 1..Len(df.rows) |-> [df.rows[r] EXCEPT ![i] = cells[r]]]]
NullCount(cells) == Cardinality({r \in 1..Len(cells) : IsNull(cells[r])})

\* Numeric parsing of a text, as pd.to_numeric does it: the canonical
\* numeral of the text, or "" when the text is not a number.
NumeralOf(s) ==
    CASE s = "1" -> "1"
      [] s = "1.0" -> "1"
      [] s = "3" -> "3"
      [] s = "3.0" -> "3"
      [] s = "1.5" -> "1.5"
      [] OTHER -> ""
IsIntegral(n) == n \in {"1", "3"}
\* Text of a float as to_csv / str() write it.
FloatText(n) ==
    CASE n = "1" -> "1.0"
      [] n = "3" -> "3.0"
      [] OTHER -> n

\* The number a cell holds or parses to ("" when it is not a number).
NumberOf(c) ==
    CASE c[1] = "int" -> c[2]
      [] c[1] = "float" -> c[2]
      [] c[1] = "str" -> NumeralOf(c[2])
      [] OTHER -> ""
Parses(c) == NumberOf(c) # ""

\* pd.to_numeric(series, errors='coerce'): a numeric column is returned as
\* it is; an object column becomes int64 when every cell parses as an
\* integer, and float64 (unparseable cells and nulls become NaN) otherwise.
ToNumeric(cells, dtype) ==
    IF dtype # "object" THEN [cells |-> cells, dtype |-> dtype]
    ELSE IF \A r \in 1..Len(cells) : Parses(cells[r]) /\ IsIntegral(NumberOf(cells[r]))
              /\ cells[r][1] # "float"
         THEN [cells |-> [r \in 1..Len(cells) |-> IntCell(NumberOf(cells[r]))],
               dtype |-> "int64"]
         ELSE [cells |-> [r \in 1..Len(cells) |->
                            IF Parses(cells[r]) THEN FloatCell(NumberOf(cells[r])) ELSE Null],
               dtype |-> "float64"]

\* series.astype('Int64'): raises TypeError ("cannot safely cast
\* non-equivalent float64 to int64") when a float cell is not integral.
AstypeInt64Raises(cells, dtype) ==
    dtype = "float64" /\ \E r \in 1..Len(cells) : ~IsNull(cells[r]) /\ ~IsIntegral(cells[r][2])
AstypeInt64(cells) ==
    [r \in 1..Len(cells) |-> IF IsNull(cells[r]) THEN Null ELSE IntCell(cells[r][2])]

\* The text of a cell as to_csv writes it (a null is the empty field).
Text(c) ==
    CASE c[1] = "null" -> ""
      [] c[1] = "float" -> FloatText(c[2])
      [] OTHER -> c[2]
\* series.astype(str): str() of every value, nulls included.
StrOf(c, dtype) ==
    IF IsNull(c)
    THEN (CASE dtype = "float64" -> "nan" [] dtype = "Int64" -> "<NA>" [] OTHER -> "None")
    ELSE Text(c)
AstypeStr(cells, dtype) == [r \in 1..Len(cells) |-> Str(StrOf(cells[r], dtype))]

\* series.fillna(value) with a string value: raises TypeError on a nullable
\* integer column that has nulls; a float64 column that gets a string
\* becomes object.
FillnaRaises(cells, dtype) == dtype = "Int64" /\ NullCount(cells) > 0
FillnaKeepsNulls(cells, value) == cells
Fillna(cells, value) == [r \in 1..Len(cells) |-> IF IsNull(cells[r]) THEN Str(value) ELSE cells[r]]
FillnaDtype(cells, dtype) ==
    IF dtype = "float64" /\ NullCount(cells) > 0 THEN "object" ELSE dtype

\* ----------------------------------------------------- transformations
FillNa(col, v) == [type |-> "fill_na", column |-> col, value |-> v, dtype |-> ""]
TypeCast(col, dt) == [type |-> "type_cast", column |-> col, value |-> "", dtype |-> dt]
TransformationPool ==
    {FillNa("name", FillValue), FillNa("cost", FillValue),
     TypeCast("name", "int"), TypeCast("name", "float"), TypeCast("name", "str")}

\* `if column not in df.columns`: a warning, and on to the next transformation.
MissingColumnSilent(df, tr) == [df |-> df, log |-> <<>>]
MissingColumn(df, tr) ==
    [df |-> df, log |-> << <<"warning", "TransformColumnMissing", tr.column>> >>]

\* One iteration of the loop of apply_transformations: the frame after the
\* transformation and the messages it logs.
ApplyOne(df, tr) ==
    IF ~Contains(df.columns, tr.column)
    THEN MissingColumn(df, tr)
    ELSE LET i == IndexOf(df.columns, tr.column)
             cells == ColumnCells(df, i)
             dt == df.dtypes[i]
             num == ToNumeric(cells, dt)
             err == [df |-> df, log |-> << <<"warning", "TransformationError", tr.column>> >>]
         IN  CASE tr.type = "fill_na" ->
                    IF FillnaRaises(cells, dt) THEN err
                    ELSE [df |-> WithColumn(df, i, Fillna(cells, tr.value), FillnaDtype(cells, dt)),
                          log |-> << <<"info", "Filled", tr.column>> >>]
               [] tr.type = "type_cast" /\ tr.dtype = "int" ->
                    IF AstypeInt64Raises(num.cells, num.dtype) THEN err
                    ELSE [df |-> WithColumn(df, i, AstypeInt64(num.cells), "Int64"),
                          log |-> << <<"info", "Cast", tr.column>> >>]
               [] tr.type = "type_cast" /\ tr.dtype = "float" ->
                    [df |-> WithColumn(df, i, num.cells, num.dtype),
                     log |-> << <<"info", "Cast", tr.column>> >>]
               [] tr.type = "type_cast" /\ tr.dtype = "str" ->
                    [df |-> WithColumn(df, i, AstypeStr(cells, dt), "object"),
                     log |-> << <<"info", "Cast", tr.column>> >>]
               [] tr.type = "type_cast" ->
                    [df |-> df, log |-> << <<"info", "Cast", tr.column>> >>]
               [] OTHER ->
                    [df |-> df, log |-> << <<"warning", "UnknownTransformation", tr.type>> >>]

\* `for transform in transformations`: what the loop still has to apply once
\* the transformation at the head of trs has been handled with outcome first.
RemainingUnlessWarned(first, trs) ==
    IF first.log # <<>> /\ first.log[1][2] = "TransformationError" THEN <<>> ELSE Tail(trs)
Remaining(first, trs) == Tail(trs)

RECURSIVE ApplyTransformations(_, _)
ApplyTransformations(df, trs) ==
    IF trs = <<>> THEN [df |-> df, log |-> <<>>]
    ELSE LET first == ApplyOne(df, Head(trs))
             rest == ApplyTransformations(first.df, Remaining(first, trs))
         IN  [df |-> rest.df, log |-> first.log \o rest.log]

\* ----------------------------------------------------------- the CSV file
HeaderLine(cols) == [kind |-> "header", cells |-> cols]
RowLine(row) == [kind |-> "row", cells |-> [i \in 1..Len(row) |-> Text(row[i])]]
RenderRows(df) == [r \in 1..Len(df.rows) |-> RowLine(df.rows[r])]
\* df.to_csv(path, mode=mode, index=False, header=header): the new content.
ToCsv(old, df, mode, header) ==
    (IF mode = "w" THEN <<>> ELSE old)
        \o (IF header THEN <<HeaderLine(df.columns)>> ELSE <<>>)
        \o RenderRows(df)
\* pd.DataFrame(columns=cols): a frame with these columns and no row.
EmptyFrame(cols) == DataFrame(cols, [i \in 1..Len(cols) |-> "object"], <<>>)

\* ------------------------------------------------------------- the state
VARIABLES
    tableRows,            \* rows of the live source table, in table order
    reader,               \* how the batch iterator behaves (see ReadSql)
    dialect,              \* engine.dialect.name
    fileExists,           \* does the file at output_path exist
    fileLines,            \* its lines
    columns,              \* arguments of the current call
    target_columns,
    transformations,
    chunk_size,
    pc,                   \* position of the call
    valid_columns,        \* locals of the call
    valid_target_columns,
    query,                \* the SELECT statement built for the call
    chunks,               \* batches the iterator has still to yield
    df,                   \* the batch fetched and not yet written
    first_chunk,
    total_rows,
    ret,                  \* "none" while running, then "True" / "False"
    log,                  \* messages of the current call (st.* and logger.*)
    fileAtCall,           \* history: the file when the current call began
    consumed,             \* history: the batches fetched by the current call
    processed,            \* history: each batch transformed, before and after
    prev,                 \* history: outcome of the previous call
    expected_columns,     \* argument of validate_export_file
    validation,           \* what validate_export_file returned
    source_engine,        \* session state: the database connected, or "None"
    source_tables,        \* session state: the tables discovered in it
    table_mapping,        \* session state: (target table, source table) pairs
    column_mappings,      \* session state: target table -> column mapping
    page_transformations, \* the transformations configured on the page, per table
    csv_paths,            \* session state: target table -> path of its export
    files,                \* the temporary files, by path
    tables_with_mappings, \* arguments of perform_bulk_export
    force_reexport,
    index,                \* its locals: the position of the loop
    successful_exports,
    failed_exports,
    bpc,                  \* "page" between runs, "loop" during one
    status,               \* the final status shown by the last run
    run,                  \* history: "none", "first" or "second" run
    csvAtRun,             \* history: csv_paths when the current run began
    handled,              \* history: the tables the current run went through
    invocations           \* history: the engine calls of the current run

engineVars == <<tableRows, reader, dialect, fileExists, fileLines, columns,
                target_columns, transformations, chunk_size, pc, valid_columns,
                valid_target_columns, query, chunks, df, first_chunk, total_rows, ret, log, fileAtCall,
                consumed, processed, prev>>
validateVars == <<expected_columns, validation>>
\* What a call of transform_and_export neither reads nor writes.
sessionVars == <<table_mapping, column_mappings, page_transformations, csv_paths, files>>
connVars == <<source_engine, source_tables>>
bulkVars == <<sessionVars, connVars, tables_with_mappings, force_reexport, index,
              successful_exports, failed_exports, bpc, status, run, csvAtRun,
              handled, invocations>>
otherVars == <<validateVars, bulkVars>>
vars == <<engineVars, otherVars>>

inputVars == <<tableRows, reader, dialect>>
\* What a call holds while it runs.
callVars == <<columns, target_columns, transformations, chunk_size, pc, valid_columns,
              valid_target_columns, query, chunks, df, first_chunk, total_rows, ret, log,
              fileAtCall, consumed, processed, prev>>
argVars == <<columns, target_columns, transformations, chunk_size>>
fileVars == <<fileExists, fileLines>>
histVars == <<fileAtCall, prev>>

NoFrame == DataFrame(<<>>, <<>>, <<>>)
\* A file left at output_path by something earlier.
StaleFile == <<HeaderLine(<<"old">>), [kind |-> "row", cells |-> <<"stale">>]>>

\* ------------------------------------------------------------ the inputs
TableSet ==
    UNION {{[r \in 1..n |-> <<Str(RowIds[r]), cs[r]>>] : cs \in [1..n -> DataCells]}
              : n \in 0..MaxRows}
ColumnLists == {s \in SeqsUpTo(SourceNames, MaxCols) : Injective(s)}
TargetLists == {SubSeq(TargetNames, 1, n) : n \in 0..MaxCols}
\* The transformation lists tried: none, and each transformation alone.
TransformationLists == {<<>>} \cup {<<tr>> : tr \in TransformationPool}
ChunkSizes == 1..MaxChunk
\* Lists of two transformations: a transformation of a column the table
\* lacks or a cast, followed by a transformation of the column "name"; and
\* the fill of "name" followed by its cast to int.
TransformationPairs ==
    {<<a, b>> : a \in {FillNa("cost", FillValue), TypeCast("name", "int"),
                       TypeCast("name", "float")},
               b \in {FillNa("name", FillValue), TypeCast("name", "str")}}
        \cup {<<FillNa("name", FillValue), TypeCast("name", "int")>>}

\* --------------------------------------------------------------- reading
\* SELECT <cols> FROM <table>: the table's rows restricted to cols.
SelectRows(cols) ==
    [r \in 1..Len(tableRows) |->
        [j \in 1..Len(cols) |-> tableRows[r][IndexOf(ActualColumns, cols[j])]]]

\* pd.read_sql(query, engine, chunksize=n): batches of n rows, the last one
\* shorter; for an empty result pandas yields either nothing or one empty
\* frame, depending on its version.
RECURSIVE Chunked(_, _)
Chunked(rows, n) ==
    IF rows = <<>> THEN <<>>
    ELSE <<SubSeq(rows, 1, Min(n, Len(rows)))>>
             \o Chunked(SubSeq(rows, Min(n, Len(rows)) + 1, Len(rows)), n)
RECURSIVE SplitBySizes(_, _)
SplitBySizes(rows, sizes) ==
    IF sizes = <<>> THEN <<>>
    ELSE <<SubSeq(rows, 1, Head(sizes))>>
             \o SplitBySizes(SubSeq(rows, Head(sizes) + 1, Len(rows)), Tail(sizes))
ReadSql(cols, n) ==
    LET rows == SelectRows(cols)
        parts == CASE reader.kind = "iterator" -> SplitBySizes(rows, reader.sizes)
                   [] rows = <<>> /\ reader.emptyBatch -> << <<>> >>
                   [] OTHER -> Chunked(rows, n)
    IN  [b \in 1..Len(parts) |->
            DataFrame(cols, [i \in 1..Len(cols) |-> "object"], parts[b])]

\* --------------------------------------------------------------- actions
\* The pairs (source column, target column) whose source column exists.
\* (mutation: the kept source columns paired with the leading target names)
ValidPairsUnpaired(cols, tgts) ==
    LET kept == SelectSeq(cols, LAMBDA c : Contains(ActualColumns, c))
    IN  [k \in 1..Min(Len(kept), Len(tgts)) |-> <<kept[k], tgts[k]>>]
\* zip() stops at the shorter list.
RECURSIVE ValidPairs(_, _)
ValidPairs(cols, tgts) ==
    IF cols = <<>> \/ tgts = <<>> THEN <<>>
    ELSE (IF Contains(ActualColumns, Head(cols)) THEN <<<<Head(cols), Head(tgts)>>>> ELSE <<>>)
            \o ValidPairs(Tail(cols), Tail(tgts))
RECURSIVE NotFoundWarnings(_)
NotFoundWarnings(cols) ==
    IF cols = <<>> THEN <<>>
    ELSE (IF Contains(ActualColumns, Head(cols)) THEN <<>>
          ELSE << <<"warning", "ColumnNotFound", Head(cols)>> >>)
            \o NotFoundWarnings(Tail(cols))

\* The three fatal checks of the validation.
NoColumnsNever(cols) == FALSE
NoColumns(cols) == cols = <<>>
CountMismatchOnlyLonger(cols, tgts) == Len(cols) > Len(tgts)
CountMismatch(cols, tgts) == Len(cols) # Len(tgts)
NoneValidNever(pairs) == FALSE
NoneValid(pairs) == pairs = <<>>

\* The identifier quoting chosen from engine.dialect.name, for a column and
\* for the table: the quoted name as (opening quote, name, closing quote).
Dialects == <<"sqlite", "mysql", "postgresql", "mssql">>
Backtick == "backtick"
DoubleQuote == "double quote"
TableName == "produits"
EscapeWithBackticks(d, name) == <<Backtick, name, Backtick>>
Escape(d, name) ==
    CASE d = "sqlite" -> <<Backtick, name, Backtick>>
      [] d = "mysql" -> <<Backtick, name, Backtick>>
      [] d = "postgresql" -> <<DoubleQuote, name, DoubleQuote>>
      [] OTHER -> <<"[", name, "]">>
\* The SELECT statement: the escaped columns, in order, and the escaped table.
BuildQuery(d, table, cols) ==
    [select |-> [k \in 1..Len(cols) |-> Escape(d, cols[k])], from |-> Escape(d, table)]
NoQuery == [select |-> <<>>, from |-> <<>>]

\* The `except Exception` of transform_and_export: what the call returns
\* once an exception reached it.
OnExceptionPropagates == "raised"
OnException == "False"

\* `return False` after the messages msgs.
Fail(msgs) ==
    /\ ret' = "False"
    /\ log' = msgs
    /\ pc' = "done"

\* Input validation and column filtering of a call with these lists.
Validate(cols, tgts) ==
    IF NoColumns(cols)
    THEN /\ Fail(<< <<"warning", "NoColumnsMapped", "">> >>)
         /\ valid_columns' = <<>>
         /\ valid_target_columns' = <<>>
    ELSE IF CountMismatch(cols, tgts)
    THEN /\ Fail(<< <<"error", "ColumnCountMismatch", "">> >>)
         /\ valid_columns' = <<>>
         /\ valid_target_columns' = <<>>
    ELSE LET pairs == ValidPairs(cols, tgts)
         IN  /\ valid_columns' = [i \in 1..Len(pairs) |-> pairs[i][1]]
             /\ valid_target_columns' = [i \in 1..Len(pairs) |-> pairs[i][2]]
             /\ IF NoneValid(pairs)
                THEN Fail(NotFoundWarnings(cols) \o << <<"warning", "NoValidColumns", "">> >>)
                ELSE /\ log' = NotFoundWarnings(cols)
                     /\ pc' = "query"
                     /\ ret' = "none"

\* A call transform_and_export(engine, table_name, columns, target_columns,
\* output_path, transformations, chunk_size), up to the end of validation.
Enter(cols, tgts, trs, n) ==
    /\ columns' = cols
    /\ target_columns' = tgts
    /\ transformations' = trs
    /\ chunk_size' = n
    /\ Validate(cols, tgts)
    /\ query' = NoQuery
    /\ chunks' = <<>>
    /\ df' = NoFrame
    /\ first_chunk' = TRUE
    /\ total_rows' = 0
    /\ consumed' = <<>>
    /\ processed' = <<>>
    /\ fileAtCall' = [exists |-> fileExists, lines |-> fileLines]
    /\ UNCHANGED <<inputVars, fileVars, otherVars>>

\* The first call: any arguments.
Call(cols, tgts, trs, n) ==
    /\ pc = "idle"
    /\ prev' = prev
    /\ Enter(cols, tgts, trs, n)

\* After a first, successful export, the same export once more with another
\* chunk_size, the output path being the same.
ReExport(n) ==
    /\ pc = "done"
    /\ ret = "True"
    /\ prev.ret = "none"
    /\ n # chunk_size
    /\ prev' = [ret |-> ret, exists |-> fileExists, lines |-> fileLines,
                chunk_size |-> chunk_size]
    /\ Enter(columns, target_columns, transformations, n)

\* The query is built and the batch iterator opened.
Query ==
    /\ pc = "query"
    /\ query' = BuildQuery(dialect, TableName, valid_columns)
    /\ chunks' = ReadSql(valid_columns, chunk_size)
    /\ first_chunk' = TRUE
    /\ total_rows' = 0
    /\ pc' = "loop"
    /\ UNCHANGED <<inputVars, fileVars, argVars, histVars, valid_columns,
                   valid_target_columns, df, ret, log, consumed, processed, otherVars>>

\* `for df in chunks`: the next batch is fetched, or the loop ends; the
\* iterator is asked for a batch only at the head of the loop, once the body
\* for the batch before has run to its end.
ReadyForNextBatchAnywhere(p) == p \in {"loop", "body"}
ReadyForNextBatch(p) == p = "loop"
NextChunk ==
    /\ ReadyForNextBatch(pc)
    /\ IF chunks = <<>>
       THEN /\ pc' = "after"
            /\ UNCHANGED <<chunks, df, consumed>>
       ELSE /\ df' = Head(chunks)
            /\ chunks' = Tail(chunks)
            /\ consumed' = Append(consumed, Head(chunks))
            /\ pc' = "body"
    /\ UNCHANGED <<inputVars, fileVars, argVars, histVars, valid_columns,
                   valid_target_columns, query, first_chunk, total_rows, ret, log,
                   processed, otherVars>>

WriteMode(first) == IF first THEN "w" ELSE "a"
WriteHeaderAlways(first) == TRUE
WriteHeader(first) == first
NothingWrittenNever(total) == FALSE
NothingWritten(total) == total = 0

\* The loop body for the batch held in df.
ProcessChunk ==
    /\ pc = "body"
    /\ df' = NoFrame
    /\ IF df.rows = <<>>
       THEN IF first_chunk
            THEN /\ fileExists' = TRUE
                 /\ fileLines' = ToCsv(fileLines, EmptyFrame(valid_target_columns), "w", TRUE)
                 /\ log' = Append(log, <<"warning", "TableEmpty", "">>)
                 /\ ret' = "True"
                 /\ pc' = "done"
                 /\ UNCHANGED <<first_chunk, total_rows, processed>>
            ELSE /\ pc' = "loop"
                 /\ UNCHANGED <<fileVars, log, ret, first_chunk, total_rows, processed>>
       ELSE LET applied == IF transformations # <<>>
                           THEN ApplyTransformations(df, transformations)
                           ELSE [df |-> df, log |-> <<>>]
                renamed == [applied.df EXCEPT !.columns = valid_target_columns]
            IN  /\ fileExists' = TRUE
                /\ fileLines' = ToCsv(fileLines, renamed, WriteMode(first_chunk),
                                      WriteHeader(first_chunk))
                /\ processed' = Append(processed, [in |-> df, out |-> applied.df])
                /\ log' = log \o applied.log
                /\ total_rows' = total_rows + Len(df.rows)
                /\ first_chunk' = FALSE
                /\ pc' = "loop"
                /\ ret' = ret
    /\ UNCHANGED <<inputVars, argVars, histVars, valid_columns, valid_target_columns,
                   query, chunks, consumed, otherVars>>

\* After the loop: an export that wrote no row writes the header-only file.
Finish ==
    /\ pc = "after"
    /\ IF NothingWritten(total_rows)
       THEN /\ fileExists' = TRUE
            /\ fileLines' = ToCsv(fileLines, EmptyFrame(valid_target_columns), "w", TRUE)
            /\ log' = Append(log, <<"warning", "TableEmpty", "">>)
       ELSE /\ log' = Append(log, <<"info", "Exported", "">>)
            /\ UNCHANGED fileVars
    /\ ret' = "True"
    /\ pc' = "done"
    /\ UNCHANGED <<inputVars, argVars, histVars, valid_columns, valid_target_columns,
                   query, chunks, df, first_chunk, total_rows, consumed, processed,
                   otherVars>>

\* --------------------------------------------------------- specifications
\* No call of validate_export_file has been made.
NoValidation ==
    [done |-> FALSE, raised |-> FALSE, valid |-> FALSE,
     message |-> [kind |-> "", missing |-> {}, extra |-> {}, error |-> ""],
     row_count |-> 0, column_count |-> 0]
IdleValidate ==
    /\ expected_columns = <<>>
    /\ validation = NoValidation

\* No table is mapped and no bulk export has run.
IdleBulk ==
    /\ source_engine = "None"
    /\ source_tables = <<>>
    /\ table_mapping = <<>>
    /\ column_mappings = <<>>
    /\ page_transformations = <<>>
    /\ csv_paths = <<>>
    /\ files = <<>>
    /\ tables_with_mappings = <<>>
    /\ force_reexport = FALSE
    /\ index = 0
    /\ successful_exports = 0
    /\ failed_exports = <<>>
    /\ bpc = "page"
    /\ status = "none"
    /\ run = "none"
    /\ csvAtRun = <<>>
    /\ handled = <<>>
    /\ invocations = <<>>

\* No call of transform_and_export has been made.
IdleCall ==
    /\ columns = <<>>
    /\ target_columns = <<>>
    /\ transformations = <<>>
    /\ chunk_size = 1
    /\ pc = "idle"
    /\ valid_columns = <<>>
    /\ valid_target_columns = <<>>
    /\ query = NoQuery
    /\ chunks = <<>>
    /\ df = NoFrame
    /\ first_chunk = TRUE
    /\ total_rows = 0
    /\ ret = "none"
    /\ log = <<>>
    /\ fileAtCall = [exists |-> fileExists, lines |-> fileLines]
    /\ consumed = <<>>
    /\ processed = <<>>
    /\ prev = [ret |-> "none", exists |-> FALSE, lines |-> <<>>, chunk_size |-> 0]
InitCall ==
    /\ fileExists \in BOOLEAN
    /\ fileLines = IF fileExists THEN StaleFile ELSE <<>>
    /\ dialect = Dialects[1]
    /\ IdleCall
    /\ IdleValidate
    /\ IdleBulk

\* The program: the batches come from pd.read_sql.
Init ==
    /\ tableRows \in TableSet
    /\ reader \in {[kind |-> "read_sql", emptyBatch |-> e, sizes |-> <<>>] :
                      e \in IF tableRows = <<>> THEN BOOLEAN ELSE {FALSE}}
    /\ InitCall

Next ==
    \/ \E cols \in ColumnLists, tgts \in TargetLists,
          trs \in TransformationLists, n \in ChunkSizes : Call(cols, tgts, trs, n)
    \/ \E n \in ChunkSizes : ReExport(n)
    \/ Query
    \/ NextChunk
    \/ ProcessChunk
    \/ Finish

Spec == Init /\ [][Next]_vars

\* The same program called with lists of two transformations.
NextPairs ==
    \/ \E cols \in ColumnLists, tgts \in TargetLists,
          trs \in TransformationPairs, n \in ChunkSizes : Call(cols, tgts, trs, n)
    \/ Query
    \/ NextChunk
    \/ ProcessChunk
    \/ Finish
SpecPairs == Init /\ [][NextPairs]_vars

\* The loop of transform_and_export over an arbitrary batch iterator: the
\* rows of the table arrive split into batches of any sizes, empty batches
\* included, at any position.
RECURSIVE Sum(_)
Sum(z) == IF z = <<>> THEN 0 ELSE Head(z) + Sum(Tail(z))
SizeLists(n) == {z \in SeqsUpTo(0..MaxRows, MaxBatches) : Sum(z) = n}
InitBatches ==
    /\ tableRows \in TableSet
    /\ reader \in {[kind |-> "iterator", emptyBatch |-> FALSE, sizes |-> z] :
                      z \in SizeLists(Len(tableRows))}
    /\ InitCall
SpecBatches == InitBatches /\ [][Next]_vars

\* ------------------------------------- transform_and_export, as one step
\* The loop of transform_and_export run to its end over these batches: the
\* lines of the file afterwards, the rows written and the messages logged.
RECURSIVE WriteBatches(_, _, _, _, _, _)
WriteBatches(batches, first, total, lines, tgts, trs) ==
    IF batches = <<>>
    THEN IF NothingWritten(total)
         THEN [lines |-> ToCsv(lines, EmptyFrame(tgts), "w", TRUE), total |-> total,
               log |-> << <<"warning", "TableEmpty", "">> >>]
         ELSE [lines |-> lines, total |-> total, log |-> << <<"info", "Exported", "">> >>]
    ELSE LET batch == Head(batches)
         IN  IF batch.rows = <<>>
             THEN IF first
                  THEN [lines |-> ToCsv(lines, EmptyFrame(tgts), "w", TRUE), total |-> total,
                        log |-> << <<"warning", "TableEmpty", "">> >>]
                  ELSE WriteBatches(Tail(batches), first, total, lines, tgts, trs)
             ELSE LET applied == IF trs # <<>>
                                 THEN ApplyTransformations(batch, trs)
                                 ELSE [df |-> batch, log |-> <<>>]
                      renamed == [applied.df EXCEPT !.columns = tgts]
                      rest == WriteBatches(Tail(batches), FALSE, total + Len(batch.rows),
                                           ToCsv(lines, renamed, WriteMode(first),
                                                 WriteHeader(first)),
                                           tgts, trs)
                  IN  [rest EXCEPT !.log = applied.log \o rest.log]

\* A whole call transform_and_export(engine, table_name, cols, tgts, path,
\* trs, n) on a file holding old: what it returns, logs and leaves in the file.
ExportOutcome(cols, tgts, trs, n, old) ==
    IF NoColumns(cols)
    THEN [ret |-> "False", log |-> << <<"warning", "NoColumnsMapped", "">> >>, lines |-> old]
    ELSE IF CountMismatch(cols, tgts)
    THEN [ret |-> "False", log |-> << <<"error", "ColumnCountMismatch", "">> >>, lines |-> old]
    ELSE LET pairs == ValidPairs(cols, tgts)
             valid == [i \in 1..Len(pairs) |-> pairs[i][1]]
             valid_targets == [i \in 1..Len(pairs) |-> pairs[i][2]]
         IN  IF NoneValid(pairs)
             THEN [ret |-> "False",
                   log |-> NotFoundWarnings(cols) \o << <<"warning", "NoValidColumns", "">> >>,
                   lines |-> old]
             ELSE LET written == WriteBatches(ReadSql(valid, n), TRUE, 0, old,
                                              valid_targets, trs)
                  IN  [ret |-> "True", log |-> NotFoundWarnings(cols) \o written.log,
                       lines |-> written.lines]

\* --------------------------------------------------- validate_export_file
\* pd.read_csv(file_path): raises when the file is missing, when it holds
\* nothing, and when a data line has more fields than the lines before it.
ReadCsvError(exists, lines) ==
    IF ~exists THEN "FileNotFoundError"
    ELSE IF lines = <<>> THEN "EmptyDataError"
    ELSE IF \E r \in 3..Len(lines) : Len(lines[r].cells) > Len(lines[2].cells)
    THEN "ParserError"
    ELSE ""
\* list(df.columns) and len(df) of the frame read from a readable file.
CsvColumns(lines) == lines[1].cells
CsvRowCount(lines) == Len(lines) - 1
ToSet(seq) == {seq[i] : i \in 1..Len(seq)}

SameColumnsInOrder(actual, expected) == actual = expected
SameColumns(actual, expected) == ToSet(actual) = ToSet(expected)

\* The result of the except branch.
ErrorPropagates(e) ==
    [done |-> TRUE, raised |-> TRUE, valid |-> FALSE,
     message |-> [kind |-> "", missing |-> {}, extra |-> {}, error |-> e],
     row_count |-> 0, column_count |-> 0]
ErrorResult(e) ==
    [done |-> TRUE, raised |-> FALSE, valid |-> FALSE,
     message |-> [kind |-> "Error reading file", missing |-> {}, extra |-> {}, error |-> e],
     row_count |-> 0, column_count |-> 0]

validate_export_file(exists, lines, expected) ==
    IF ReadCsvError(exists, lines) # ""
    THEN ErrorResult(ReadCsvError(exists, lines))
    ELSE LET actual_columns == CsvColumns(lines)
             row_count == CsvRowCount(lines)
         IN  IF SameColumns(actual_columns, expected)
             THEN [done |-> TRUE, raised |-> FALSE, valid |-> TRUE,
                   message |-> [kind |-> "File valid", missing |-> {}, extra |-> {},
                                error |-> ""],
                   row_count |-> row_count, column_count |-> Len(actual_columns)]
             ELSE [done |-> TRUE, raised |-> FALSE, valid |-> FALSE,
                   message |-> [kind |-> "Column mismatch",
                                missing |-> ToSet(expected) \ ToSet(actual_columns),
                                extra |-> ToSet(actual_columns) \ ToSet(expected),
                                error |-> ""],
                   row_count |-> row_count, column_count |-> Len(actual_columns)]

\* A call validate_export_file(file_path, expected_columns) on the file.
ValidateExportFile(expected) ==
    /\ ~validation.done
    /\ expected_columns' = expected
    /\ validation' = validate_export_file(fileExists, fileLines, expected)
    /\ UNCHANGED <<engineVars, bulkVars>>

\* The files validated: none, an empty one, exports (a header of distinct
\* names and rows as wide as the header) and files whose last line has one
\* field too many.
HeaderNames == {TargetNames[i] : i \in 1..(MaxCols + 1)}
CsvHeaders == {h \in SeqsUpTo(HeaderNames, MaxCols) : h # <<>> /\ Injective(h)}
CsvRow(width) == [kind |-> "row", cells |-> [i \in 1..width |-> "v"]]
WellFormedFiles ==
    {<<HeaderLine(h)>> \o [r \in 1..n |-> CsvRow(Len(h))] : h \in CsvHeaders, n \in 0..MaxRows}
MalformedFiles ==
    {<<HeaderLine(h), CsvRow(Len(h)), CsvRow(Len(h) + 1)>> : h \in CsvHeaders}
ExpectedLists == SeqsUpTo(HeaderNames, MaxCols)

InitValidate ==
    /\ tableRows = <<>>
    /\ reader = [kind |-> "read_sql", emptyBatch |-> FALSE, sizes |-> <<>>]
    /\ fileExists \in BOOLEAN
    /\ fileLines \in IF fileExists THEN {<<>>} \cup WellFormedFiles \cup MalformedFiles
                     ELSE {<<>>}
    /\ dialect = Dialects[1]
    /\ IdleCall
    /\ IdleValidate
    /\ IdleBulk
NextValidate == \E expected \in ExpectedLists : ValidateExportFile(expected)
SpecValidate == InitValidate /\ [][NextValidate]_vars

\* ---------------------------------------------------- perform_bulk_export
TargetTables == <<"T1", "T2", "T3", "T4">>
SourceTables == <<"S1", "S2", "S3", "S4", "S5">>
Tables == {TargetTables[k] : k \in 1..MaxTables}
DefaultChunkSize == 10000

\* A column mapping is a dict target column -> source column, kept as the
\* sequence of its items; these are its keys() and values().
MappingKeysAreSourceNames(m) == [k \in 1..Len(m) |-> m[k][2]]
MappingKeys(m) == [k \in 1..Len(m) |-> m[k][1]]
MappingValues(m) == [k \in 1..Len(m) |-> m[k][2]]
NoMapping == <<>>
IdMapping == << <<"id_produit", "id">> >>
NameMapping == << <<"id_produit", "id">>, <<"nom_produit", "name">> >>
\* A mapping to a column the table has not (any more).
StaleMapping == << <<"id_produit", "cost">> >>

\* show_bulk_export_section: the tables offered for export and their split.
TablesWithMappingsUnfiltered == table_mapping
TablesWithMappings ==
    SelectSeq(table_mapping,
              LAMBDA p : p[2] # "None" /\ column_mappings[p[1]] # NoMapping)
AlreadyExportedTables == {t \in Tables : csv_paths[t] # 0}
NotExported(twm) == {k \in 1..Len(twm) : twm[k][1] \notin AlreadyExportedTables}
Exported(twm) == {k \in 1..Len(twm) : twm[k][1] \in AlreadyExportedTables}

\* perform_bulk_export(twm, force) up to the loop.
PerformBulkExport(twm, force) ==
    /\ bpc = "page"
    /\ run # "second"
    /\ run' = IF run = "none" THEN "first" ELSE "second"
    /\ tables_with_mappings' = twm
    /\ force_reexport' = force
    /\ index' = 1
    /\ successful_exports' = 0
    /\ failed_exports' = <<>>
    /\ bpc' = "loop"
    /\ status' = "none"
    /\ csvAtRun' = csv_paths
    /\ handled' = <<>>
    /\ invocations' = <<>>
    /\ UNCHANGED <<engineVars, validateVars, sessionVars, connVars>>

\* Is a button of the section rendered: the section returns before drawing
\* anything when no table has a mapping, and draws each button only while
\* the tables it is about (the pending ones, the exported ones) exist.
ButtonShownAlways(twm, about) == TRUE
ButtonShown(twm, about) == twm # <<>> /\ about # {}

\* transform_page shows its sections once a database is connected and a
\* table mapping saved.
PageShown == source_engine # "None" /\ table_mapping # <<>>

\* The button "Export All Mapped Tables", shown while a table is pending.
ExportAll ==
    /\ PageShown
    /\ ButtonShown(TablesWithMappings, NotExported(TablesWithMappings))
    /\ PerformBulkExport(TablesWithMappings, FALSE)
\* The button "Re-export All Tables", shown once a table is exported.
ReExportAll ==
    /\ PageShown
    /\ ButtonShown(TablesWithMappings, Exported(TablesWithMappings))
    /\ PerformBulkExport(TablesWithMappings, TRUE)

\* configure_column_mapping: the user maps one column less of an exported
\* table; the transformation of the column no longer mapped goes with it.
FewerColumns(m) == IF m = NameMapping THEN IdMapping ELSE NoMapping
ConfigureColumnMapping(t) ==
    /\ bpc = "page"
    /\ PageShown
    /\ \E k \in 1..Len(table_mapping) : table_mapping[k][1] = t
    /\ run = "first"
    /\ csv_paths[t] # 0
    /\ column_mappings[t] \in {NameMapping, IdMapping}
    /\ column_mappings' = [column_mappings EXCEPT ![t] = FewerColumns(column_mappings[t])]
    /\ page_transformations' = [page_transformations EXCEPT ![t] = <<>>]
    /\ UNCHANGED <<engineVars, validateVars, connVars, table_mapping, csv_paths, files,
                   tables_with_mappings, force_reexport, index, successful_exports,
                   failed_exports, bpc, status, run, csvAtRun, handled, invocations>>

AlreadyExportedIgnoringForce(force, paths, t) == paths[t] # 0
AlreadyExported(force, paths, t) == ~force /\ paths[t] # 0
SkipNotCounted(n) == n
CountSkipped(n) == n + 1
FailureDropped(failed, t) == failed
AppendFailure(failed, t) == Append(failed, t)
RecordKeepsPrior(paths, t, path) == IF paths[t] # 0 THEN paths ELSE [paths EXCEPT ![t] = path]
RecordSuccess(paths, t, path) == [paths EXCEPT ![t] = path]
\* The failure branches do not touch the record of the table.
RecordDroppedOnFailure(paths, t) == [paths EXCEPT ![t] = 0]
RecordFailure(paths, t) == paths
\* `transformations = []`: what the loop hands to the engine for a table.
BulkTransformations(t) == <<>>

\* One iteration of the loop, for the table at index; raised tells whether
\* creating the temporary file raises.
ExportTable(raised) ==
    /\ bpc = "loop"
    /\ index <= Len(tables_with_mappings)
    /\ LET target_table == tables_with_mappings[index][1]
           source_table == tables_with_mappings[index][2]
           done(outcome, cause) ==
               Append(handled, [table |-> target_table, outcome |-> outcome, cause |-> cause])
       IN  IF AlreadyExported(force_reexport, csv_paths, target_table)
           THEN /\ successful_exports' = CountSkipped(successful_exports)
                /\ handled' = done("skipped", "")
                /\ UNCHANGED <<failed_exports, csv_paths, files, invocations>>
           ELSE IF raised
           THEN /\ failed_exports' = AppendFailure(failed_exports, target_table)
                /\ handled' = done("failed", "exception")
                /\ csv_paths' = RecordFailure(csv_paths, target_table)
                /\ UNCHANGED <<successful_exports, files, invocations>>
           ELSE LET column_mapping == column_mappings[target_table]
                    csv_path == Len(files) + 1
                    outcome == ExportOutcome(MappingValues(column_mapping),
                                             MappingKeys(column_mapping),
                                             BulkTransformations(target_table),
                                             DefaultChunkSize, <<>>)
                IN  /\ files' = Append(files, outcome.lines)
                    /\ invocations' = Append(invocations,
                           [table |-> target_table, table_name |-> source_table,
                            columns |-> MappingValues(column_mapping),
                            target_columns |-> MappingKeys(column_mapping),
                            transformations |-> BulkTransformations(target_table),
                            output_path |-> csv_path, ret |-> outcome.ret,
                            log |-> outcome.log])
                    /\ IF outcome.ret = "True"
                       THEN /\ csv_paths' = RecordSuccess(csv_paths, target_table, csv_path)
                            /\ successful_exports' = successful_exports + 1
                            /\ handled' = done("succeeded", "")
                            /\ UNCHANGED failed_exports
                       ELSE /\ failed_exports' = AppendFailure(failed_exports, target_table)
                            /\ handled' = done("failed", "engine")
                            /\ csv_paths' = RecordFailure(csv_paths, target_table)
                            /\ UNCHANGED successful_exports
    /\ index' = index + 1
    /\ UNCHANGED <<engineVars, validateVars, connVars, table_mapping, column_mappings,
                   page_transformations, tables_with_mappings, force_reexport, bpc,
                   status, run, csvAtRun>>

BulkStatusNoPartial(successful, total) ==
    IF successful = total THEN "AllSucceeded" ELSE "AllFailed"
BulkStatus(successful, total) ==
    IF successful = total THEN "AllSucceeded"
    ELSE IF successful > 0 THEN "PartialSuccess"
    ELSE "AllFailed"

\* After the loop: the final status, then the page is rerun.
FinalStatus ==
    /\ bpc = "loop"
    /\ index > Len(tables_with_mappings)
    /\ status' = BulkStatus(successful_exports, Len(tables_with_mappings))
    /\ bpc' = "page"
    /\ UNCHANGED <<engineVars, validateVars, sessionVars, connVars, tables_with_mappings,
                   force_reexport, index, successful_exports, failed_exports, run,
                   csvAtRun, handled, invocations>>

\* The databases a session connects to: the second has one table more, and
\* its tables are empty.
Databases == <<"db1", "db2">>
DatabaseTables(db) ==
    SubSeq(SourceTables, 1, IF db = Databases[1] THEN MaxTables ELSE MaxTables + 1)
DatabaseRows(db) == IF db = Databases[1] THEN << <<Str(RowIds[1]), Null>> >> ELSE <<>>

\* handle_sqlite_connection / handle_external_db_connection: connect and
\* discover the tables.
Connect(db) ==
    /\ bpc = "page"
    /\ source_engine = "None"
    /\ source_engine' = db
    /\ source_tables' = DatabaseTables(db)
    /\ tableRows' = DatabaseRows(db)
    /\ UNCHANGED <<reader, dialect, fileVars, callVars, validateVars, sessionVars,
                   tables_with_mappings, force_reexport, index, successful_exports,
                   failed_exports, bpc, status, run, csvAtRun, handled, invocations>>

\* clear_connection deletes the connection keys and table_mapping from the
\* session; csv_paths and column_mappings are not among the keys.
RecordsDroppedOnClear(paths) == [t \in DOMAIN paths |-> 0]
RecordsAfterClear(paths) == paths
ClearConnection ==
    /\ bpc = "page"
    /\ source_engine # "None"
    /\ source_engine' = "None"
    /\ source_tables' = <<>>
    /\ table_mapping' = <<>>
    /\ csv_paths' = RecordsAfterClear(csv_paths)
    /\ UNCHANGED <<engineVars, validateVars, column_mappings, page_transformations,
                   files, tables_with_mappings, force_reexport, index,
                   successful_exports, failed_exports, bpc, status, run, csvAtRun,
                   handled, invocations>>

\* handle_table_mapping: one selectbox per expected table, in order; the
\* options of each are 'None' and the source tables no earlier expected table
\* was given; sel is what the user selected in each.
UsedTables(sel, k) == {sel[j] : j \in 1..k} \ {"None"}
AvailableOptionsAll(tables, used) == {"None"} \cup ToSet(tables)
AvailableOptions(tables, used) == {"None"} \cup {t \in ToSet(tables) : t \notin used}
TableMappingOf(sel) ==
    SelectSeq([k \in 1..Len(sel) |-> <<TargetTables[k], sel[k]>>],
              LAMBDA p : p[2] # "None")
\* The button "Save Mapping", shown once a table is mapped.
SaveMapping(sel) ==
    /\ bpc = "page"
    /\ source_tables # <<>>
    /\ \A k \in 1..Len(sel) :
          sel[k] \in AvailableOptions(source_tables, UsedTables(sel, k - 1))
    /\ TableMappingOf(sel) # <<>>
    /\ table_mapping' = TableMappingOf(sel)
    /\ UNCHANGED <<engineVars, validateVars, connVars, column_mappings,
                   page_transformations, csv_paths, files, tables_with_mappings,
                   force_reexport, index, successful_exports, failed_exports, bpc,
                   status, run, csvAtRun, handled, invocations>>
Selections == [1..MaxTables -> {"None"} \cup ToSet(SourceTables)]
\* Each expected table given the source table of its rank.
DefaultSelection == [k \in 1..MaxTables |-> SourceTables[k]]

\* The transform page of a session with every table mapped, any column
\* mapping per table, transformations configured or not, nothing exported.
InitBulk ==
    /\ tableRows = DatabaseRows(Databases[1])
    /\ source_engine = Databases[1]
    /\ source_tables = DatabaseTables(Databases[1])
    /\ reader = [kind |-> "read_sql", emptyBatch |-> FALSE, sizes |-> <<>>]
    /\ fileExists = FALSE
    /\ fileLines = <<>>
    /\ dialect = Dialects[1]
    /\ IdleCall
    /\ IdleValidate
    /\ table_mapping = TableMappingOf(DefaultSelection)
    /\ column_mappings \in [Tables -> {NoMapping, StaleMapping, NameMapping}]
    /\ page_transformations \in
          {[t \in Tables |-> <<>>],
           [t \in Tables |-> IF column_mappings[t] = NameMapping
                             THEN <<FillNa("name", FillValue)>> ELSE <<>>]}
    /\ csv_paths = [t \in Tables |-> 0]
    /\ files = <<>>
    /\ tables_with_mappings = <<>>
    /\ force_reexport = FALSE
    /\ index = 0
    /\ successful_exports = 0
    /\ failed_exports = <<>>
    /\ bpc = "page"
    /\ status = "none"
    /\ run = "none"
    /\ csvAtRun = csv_paths
    /\ handled = <<>>
    /\ invocations = <<>>
NextBulk ==
    \/ ExportAll
    \/ ReExportAll
    \/ \E t \in Tables : ConfigureColumnMapping(t)
    \/ \E raised \in BOOLEAN : ExportTable(raised)
    \/ FinalStatus
    \/ ClearConnection
    \/ \E db \in ToSet(Databases) : Connect(db)
    \/ SaveMapping(DefaultSelection)
SpecBulk == InitBulk /\ [][NextBulk]_vars

\* The setup page alone: connecting, disconnecting and mapping the tables.
InitMapping ==
    /\ tableRows = <<>>
    /\ reader = [kind |-> "read_sql", emptyBatch |-> FALSE, sizes |-> <<>>]
    /\ fileExists = FALSE
    /\ fileLines = <<>>
    /\ dialect = Dialects[1]
    /\ IdleCall
    /\ IdleValidate
    /\ IdleBulk
NextMapping ==
    \/ \E db \in ToSet(Databases) : Connect(db)
    \/ ClearConnection
    \/ \E sel \in Selections : SaveMapping(sel)
SpecMapping == InitMapping /\ [][NextMapping]_vars

\* transform_and_export called with an engine of any dialect.
InitDialects ==
    /\ tableRows \in {<<>>, DatabaseRows(Databases[1])}
    /\ reader = [kind |-> "read_sql", emptyBatch |-> FALSE, sizes |-> <<>>]
    /\ dialect \in ToSet(Dialects)
    /\ fileExists = FALSE
    /\ fileLines = <<>>
    /\ IdleCall
    /\ IdleValidate
    /\ IdleBulk
NextDialects ==
    \/ \E cols \in ColumnLists, tgts \in TargetLists : Call(cols, tgts, <<>>, MaxChunk)
    \/ Query
    \/ NextChunk
    \/ ProcessChunk
    \/ Finish
SpecDialects == InitDialects /\ [][NextDialects]_vars

\* An exception reaches the `except Exception` of transform_and_export: the
\* error is logged and shown, and the call returns.
Caught(stage) ==
    /\ ret' = OnException
    /\ log' = Append(log, <<"error", "ExportError", stage>>)
    /\ pc' = "done"

\* inspect(engine) / inspector.get_columns(table_name) raises, in a call
\* whose lists passed the first two checks.
IntrospectionRaises(cols, tgts, trs, n) ==
    /\ pc = "idle"
    /\ ~NoColumns(cols)
    /\ ~CountMismatch(cols, tgts)
    /\ columns' = cols
    /\ target_columns' = tgts
    /\ transformations' = trs
    /\ chunk_size' = n
    /\ fileAtCall' = [exists |-> fileExists, lines |-> fileLines]
    /\ Caught("introspection")
    /\ UNCHANGED <<inputVars, fileVars, valid_columns, valid_target_columns, query,
                   chunks, df, first_chunk, total_rows, consumed, processed, prev,
                   otherVars>>

\* pd.read_sql raises for the query and again for text(query).
QueryRaises ==
    /\ pc = "query"
    /\ query' = BuildQuery(dialect, TableName, valid_columns)
    /\ Caught("query")
    /\ UNCHANGED <<inputVars, fileVars, argVars, histVars, valid_columns,
                   valid_target_columns, chunks, df, first_chunk, total_rows, consumed,
                   processed, otherVars>>

\* The iterator raises when asked for the next batch.
FetchRaises ==
    /\ pc = "loop"
    /\ chunks # <<>>
    /\ Caught("query")
    /\ UNCHANGED <<inputVars, fileVars, argVars, histVars, valid_columns,
                   valid_target_columns, query, chunks, df, first_chunk, total_rows,
                   consumed, processed, otherVars>>

\* The loop body raises outside the handler of a single transformation: in
\* apply_transformations itself, in the rename, or in to_csv; opened tells
\* whether to_csv had opened the file (mode 'w' empties it) before it failed.
BodyRaises(stage, opened) ==
    /\ pc = "body"
    /\ stage \in {"transformation", "rename", "write"}
    /\ stage = "transformation" => (df.rows # <<>> /\ transformations # <<>>)
    /\ stage = "rename" => df.rows # <<>>
    /\ stage = "write" => (df.rows # <<>> \/ first_chunk)
    /\ opened => stage = "write"
    /\ IF opened
       THEN /\ fileExists' = TRUE
            /\ fileLines' = IF WriteMode(first_chunk) = "w" THEN <<>> ELSE fileLines
       ELSE UNCHANGED fileVars
    /\ Caught(stage)
    /\ UNCHANGED <<inputVars, argVars, histVars, valid_columns, valid_target_columns,
                   query, chunks, df, first_chunk, total_rows, consumed, processed,
                   otherVars>>

\* to_csv of the header-only file raises after the loop.
FinishRaises(opened) ==
    /\ pc = "after"
    /\ NothingWritten(total_rows)
    /\ IF opened
       THEN /\ fileExists' = TRUE
            /\ fileLines' = <<>>
       ELSE UNCHANGED fileVars
    /\ Caught("write")
    /\ UNCHANGED <<inputVars, argVars, histVars, valid_columns, valid_target_columns,
                   query, chunks, df, first_chunk, total_rows, consumed, processed,
                   otherVars>>

\* transform_and_export with a database and a file system that can fail.
FaultTransformationLists == {<<>>, <<TypeCast("name", "int")>>}
NextFaults ==
    \/ \E cols \in ColumnLists, tgts \in TargetLists,
          trs \in FaultTransformationLists, n \in ChunkSizes :
             \/ Call(cols, tgts, trs, n)
             \/ IntrospectionRaises(cols, tgts, trs, n)
    \/ Query
    \/ QueryRaises
    \/ NextChunk
    \/ FetchRaises
    \/ ProcessChunk
    \/ \E stage \in {"transformation", "rename", "write"}, opened \in BOOLEAN :
          BodyRaises(stage, opened)
    \/ Finish
    \/ \E opened \in BOOLEAN : FinishRaises(opened)
SpecFaults == Init /\ [][NextFaults]_vars

\* ------------------------------------------------------ shared predicates
Returned == pc = "done"
LastMessage == IF log = <<>> THEN "" ELSE log[Len(log)][2]
FailedWith(kind) == ret = "False" /\ LastMessage = kind
FileUnchanged == fileExists = fileAtCall.exists /\ fileLines = fileAtCall.lines
DataLines == SelectSeq(fileLines, LAMBDA l : l.kind = "row")
HeaderLines == SelectSeq(fileLines, LAMBDA l : l.kind = "header")
Present(c) == Contains(ActualColumns, c)
Survivors == {i \in 1..Len(columns) : Present(columns[i])}
ArgsPaired == columns # <<>> /\ Len(columns) = Len(target_columns)

\* ------------------------------------------------------------------- C1
\* C1 as stated: every call whose column lists differ in length returns the
\* ColumnCountMismatch failure and leaves the output file as it was.
C1_Original ==
    (Returned /\ Len(columns) # Len(target_columns))
        => (FailedWith("ColumnCountMismatch") /\ FileUnchanged)

\* C1 (amended): a call whose source list is non-empty and whose lists
\* differ in length returns the ColumnCountMismatch failure and leaves the
\* output file as it was; with an empty source list and a non-empty target
\* list the call fails with NoColumnsMapped instead, the file equally
\* untouched.
C1_ColumnCountMismatch ==
    (Returned /\ Len(columns) # Len(target_columns))
        => /\ FailedWith(IF columns = <<>> THEN "NoColumnsMapped" ELSE "ColumnCountMismatch")
           /\ FileUnchanged
C1_Witness ==
    /\ Returned
    /\ columns # <<>>
    /\ Len(columns) < Len(target_columns)
    /\ FailedWith("ColumnCountMismatch")
    /\ fileExists

\* ------------------------------------------------------------------- C2
\* C2: a call with an empty source column list, whatever the target list,
\* fails with NoColumnsMapped before anything else happens: nothing is
\* filtered, no batch is read, no other message is emitted and the output
\* file is unchanged.
C2_NoColumnsMapped ==
    (Returned /\ columns = <<>>)
        => /\ FailedWith("NoColumnsMapped")
           /\ Len(log) = 1
           /\ valid_columns = <<>> /\ consumed = <<>> /\ chunks = <<>>
           /\ FileUnchanged
C2_Witness ==
    /\ Returned
    /\ columns = <<>>
    /\ target_columns # <<>>
    /\ ret = "False"
    /\ fileExists

C4_NoValidColumns ==
    (Returned /\ ArgsPaired /\ Survivors = {})
        => (FailedWith("NoValidColumns") /\ FileUnchanged /\ consumed = <<>>)
C4_Witness ==
    /\ Returned
    /\ columns = <<"cost">>
    /\ Len(target_columns) = 1
    /\ FailedWith("NoValidColumns")
    /\ fileExists

\* ------------------------------------------------------------------- C5
\* C5: for a table with zero rows and at least one surviving column the
\* call succeeds and the file is exactly the header of the surviving target
\* names, whether the reader yielded no batch or one empty batch.
C5_EmptyTable ==
    (Returned /\ ArgsPaired /\ Survivors # {} /\ tableRows = <<>>)
        => /\ ret = "True"
           /\ fileExists
           /\ fileLines = <<HeaderLine(valid_target_columns)>>
           /\ Len(valid_target_columns) = Cardinality(Survivors)
C5_Witness ==
    /\ Returned
    /\ tableRows = <<>>
    /\ reader.emptyBatch
    /\ Len(consumed) = 1
    /\ ret = "True"
    /\ fileAtCall.lines = StaleFile
    /\ fileLines = <<HeaderLine(<<TargetNames[1], TargetNames[2]>>)>>

\* ------------------------------------------------------------------- C6
\* C6: during a call that passed validation, until the first batch is
\* written the file is as the call found it; from then on the file is one
\* header line (the surviving target names) followed by the rows of the
\* written batches in the order they were fetched: the first written batch
\* replaced whatever the file held, later ones were appended, and the header
\* is never repeated.
FetchedAndHandled == IF pc = "body" THEN SubSeq(consumed, 1, Len(consumed) - 1) ELSE consumed
C6_HeaderOnceThenAppend ==
    (pc \in {"loop", "body", "after", "done"} /\ ret # "False")
        => IF processed = <<>>
           THEN pc # "done" => FileUnchanged
           ELSE /\ fileLines = <<HeaderLine(valid_target_columns)>>
                     \o Flatten([b \in 1..Len(processed) |-> RenderRows(processed[b].out)])
                /\ Len(HeaderLines) = 1
                /\ [b \in 1..Len(processed) |-> processed[b].in]
                     = SelectSeq(FetchedAndHandled, LAMBDA d : d.rows # <<>>)
C6_Witness ==
    /\ Returned
    /\ ret = "True"
    /\ Len(processed) = 2
    /\ fileAtCall.lines = StaleFile
    /\ Len(fileLines) = 3
    /\ fileLines[1].kind = "header"

\* ------------------------------------------------------------------- C7
\* C7: whenever a call returns success, whatever batches the iterator
\* yields (empty ones included, at any position), the file exists, its
\* header is the surviving target names and it has as many data lines as
\* all the batches of the iterator have rows together.
BatchRowTotal ==
    LET all == ReadSql(valid_columns, chunk_size)
    IN  Sum([b \in 1..Len(all) |-> Len(all[b].rows)])
C8_ChunkSizeIndependent ==
    (Returned /\ ret = "True" /\ prev.ret = "True" /\ prev.chunk_size # chunk_size)
        => fileLines = prev.lines

\* ------------------------------------------------------------------- C9
\* C9: for a batch whose column c has k null cells, when the list holds a
\* fill_na of c with the value X and no other transformation of c, the
\* transformed column has no null, exactly k cells equal to X, and every
\* cell that was not null keeps its value.
OnlyTransformOf(i) ==
    \A j \in 1..Len(transformations) :
        j # i => transformations[j].column # transformations[i].column
C9_FillNa ==
    \A b \in 1..Len(processed) : \A i \in 1..Len(transformations) :
        LET tr == transformations[i]
            pin == processed[b].in
            pout == processed[b].out
        IN  (tr.type = "fill_na" /\ Contains(pin.columns, tr.column) /\ OnlyTransformOf(i))
              => LET before == ColumnCells(pin, IndexOf(pin.columns, tr.column))
                     after == ColumnCells(pout, IndexOf(pin.columns, tr.column))
                 IN  /\ Len(after) = Len(before)
                     /\ NullCount(after) = 0
                     /\ Cardinality({r \in 1..Len(after) : after[r] = Str(tr.value)})
                          = NullCount(before)
                     /\ \A r \in 1..Len(before) :
                           ~IsNull(before[r]) => after[r] = before[r]
C9_Witness ==
    /\ Returned
    /\ transformations = <<FillNa("name", FillValue)>>
    /\ valid_columns = <<"name">>
    /\ \E b \in 1..Len(processed) :
          /\ ColumnCells(processed[b].in, 1) = <<Null, Str("abc")>>
          /\ ColumnCells(processed[b].out, 1) = <<Str(FillValue), Str("abc")>>

\* ------------------------------------------------------------------ C10
\* C10: for a batch and a type_cast of column c to int or float (the only
\* transformation of c), every cell of c that parses as a number holds that
\* number afterwards, every other cell is null afterwards, and the batch
\* keeps its rows.
C10_LenientCast ==
    \A b \in 1..Len(processed) : \A i \in 1..Len(transformations) :
        LET tr == transformations[i]
            pin == processed[b].in
            pout == processed[b].out
        IN  (tr.type = "type_cast" /\ tr.dtype \in {"int", "float"}
               /\ Contains(pin.columns, tr.column) /\ OnlyTransformOf(i))
              => LET before == ColumnCells(pin, IndexOf(pin.columns, tr.column))
                     after == ColumnCells(pout, IndexOf(pin.columns, tr.column))
                 IN  /\ Len(pout.rows) = Len(pin.rows)
                     /\ \A r \in 1..Len(before) :
                           IF Parses(before[r])
                           THEN after[r][1] \in {"int", "float"}
                                  /\ after[r][2] = NumberOf(before[r])
                           ELSE IsNull(after[r])

\* ------------------------------------------------------------------ C11
\* The frame of the batch pin after the first k transformations of the call.
RECURSIVE Stage(_, _)
Stage(pin, k) ==
    IF k = 0 THEN pin ELSE ApplyOne(Stage(pin, k - 1), transformations[k]).df
Logged(level, kind, what) == \E k \in 1..Len(log) : log[k] = <<level, kind, what>>
RowsWritten ==
    fileLines = <<HeaderLine(valid_target_columns)>>
        \o Flatten([b \in 1..Len(processed) |->
               RenderRows([processed[b].out EXCEPT !.columns = valid_target_columns])])

\* C11: a transformation whose column is not a column of the batch (the
\* batch still carries the source names) leaves the batch as it found it and
\* logs a warning; the other transformations of the list are applied as if
\* it were not there, the call returns success and the batches are written.
C11_MissingColumnSkipped ==
    /\ \A b \in 1..Len(processed) : \A i \in 1..Len(transformations) :
          LET tr == transformations[i]
              pin == processed[b].in
              pout == processed[b].out
              others == SelectSeq(transformations,
                                  LAMBDA t : Contains(pin.columns, t.column))
          IN  ~Contains(pin.columns, tr.column)
                => /\ Stage(pin, i) = Stage(pin, i - 1)
                   /\ Logged("warning", "TransformColumnMissing", tr.column)
                   /\ pout = ApplyTransformations(pin, others).df
                   /\ pout.columns = pin.columns
                   /\ others = <<>> => pout = pin
    /\ (Returned /\ processed # <<>>) => (ret = "True" /\ RowsWritten)
C11_Witness ==
    /\ Returned
    /\ ret = "True"
    /\ transformations = <<FillNa("cost", FillValue), FillNa("name", FillValue)>>
    /\ valid_columns = <<"name">>
    /\ Logged("warning", "TransformColumnMissing", "cost")
    /\ Len(processed) = 1
    /\ ColumnCells(processed[1].in, 1) = <<Null, Str("abc")>>
    /\ ColumnCells(processed[1].out, 1) = <<Str(FillValue), Str("abc")>>
    /\ fileLines[2].cells = <<FillValue>>

\* ------------------------------------------------------------------ C12
\* Does applying tr to the frame raise inside the try block of the loop.
Raises(frame, tr) ==
    /\ Contains(frame.columns, tr.column)
    /\ LET i == IndexOf(frame.columns, tr.column)
           cells == ColumnCells(frame, i)
           dt == frame.dtypes[i]
           num == ToNumeric(cells, dt)
       IN  \/ tr.type = "fill_na" /\ FillnaRaises(cells, dt)
           \/ tr.type = "type_cast" /\ tr.dtype = "int"
                /\ AstypeInt64Raises(num.cells, num.dtype)

\* C12: when a transformation raises on a batch, the batch is after it what
\* it was before it (values and dtypes), a warning naming the column is
\* logged, the batch leaving the loop is the one obtained by applying every
\* transformation of the list in turn (the later ones included), the call
\* returns success and the batches are written.
C12_ErrorSkipsOneTransformation ==
    /\ \A b \in 1..Len(processed) : \A i \in 1..Len(transformations) :
          LET tr == transformations[i]
              pin == processed[b].in
          IN  Raises(Stage(pin, i - 1), tr)
                => /\ Stage(pin, i) = Stage(pin, i - 1)
                   /\ Logged("warning", "TransformationError", tr.column)
                   /\ processed[b].out = Stage(pin, Len(transformations))
    /\ (Returned /\ processed # <<>>) => (ret = "True" /\ RowsWritten)
C12_Witness ==
    /\ Returned
    /\ ret = "True"
    /\ transformations = <<TypeCast("name", "int"), FillNa("name", FillValue)>>
    /\ valid_columns = <<"name">>
    /\ Logged("warning", "TransformationError", "name")
    /\ Len(processed) = 1
    /\ ColumnCells(processed[1].in, 1) = <<Str("1.5"), Null>>
    /\ ColumnCells(processed[1].out, 1) = <<Str("1.5"), Str(FillValue)>>
    /\ fileLines[3].cells = <<FillValue>>

\* ------------------------------------------------------------------ C13
FileReadable == ReadCsvError(fileExists, fileLines) = ""
\* C13: for a file that can be read, the result is valid exactly when the
\* header and the expected columns hold the same names, in any order and
\* whatever the repetitions; when it is not valid the message lists the
\* expected names the header lacks and the header names not expected; valid
\* or not, row_count is the number of lines after the header and
\* column_count the number of header names.
C13_ValidateComparesSets ==
    (validation.done /\ FileReadable)
        => LET header == fileLines[1].cells
               missing == {c \in HeaderNames : Contains(expected_columns, c)
                                                 /\ ~Contains(header, c)}
               extra == {c \in HeaderNames : Contains(header, c)
                                               /\ ~Contains(expected_columns, c)}
           IN  /\ validation.valid <=> (missing = {} /\ extra = {})
               /\ validation.valid => validation.message.kind = "File valid"
               /\ ~validation.valid
                    => /\ validation.message.kind = "Column mismatch"
                       /\ validation.message.missing = missing
                       /\ validation.message.extra = extra
               /\ validation.row_count = Len(fileLines) - 1
               /\ validation.column_count = Len(header)
C13_Witness ==
    /\ validation.done
    /\ validation.valid
    /\ fileLines[1].cells = <<TargetNames[2], TargetNames[1]>>
    /\ expected_columns = <<TargetNames[1], TargetNames[2]>>
    /\ validation.row_count = 2
    /\ validation.column_count = 2

\* ------------------------------------------------------------------ C14
\* C14: a call never raises; when the file cannot be read (it is missing,
\* empty or malformed) the result is valid=false with the message "Error
\* reading file" carrying the error, row_count 0 and column_count 0.
C14_ValidateNeverRaises ==
    validation.done
        => /\ ~validation.raised
           /\ ~FileReadable
                => /\ ~validation.valid
                   /\ validation.message.kind = "Error reading file"
                   /\ validation.message.error = ReadCsvError(fileExists, fileLines)
                   /\ validation.message.error # ""
                   /\ validation.row_count = 0
                   /\ validation.column_count = 0
C14_Witness ==
    /\ validation.done
    /\ fileExists
    /\ Len(fileLines) = 3
    /\ validation.message.error = "ParserError"
    /\ validation.row_count = 0

\* ------------------------------------------------------------------ C15
RunEnded == bpc = "page" /\ run # "none"
InvokedFor(t) == \E k \in 1..Len(invocations) : invocations[k].table = t
OutcomeCount(outcome) ==
    Cardinality({k \in 1..Len(handled) : handled[k].outcome = outcome})
\* C15: in a run without force_reexport, a table that had an export record
\* when the run began is skipped: the engine is not called for it, its
\* record stays what it was (whatever its column mapping is now) and it is
\* counted among the successful exports; no other table is skipped. In a
\* run with force_reexport no table is skipped, and the engine is called for
\* every table unless creating its temporary file raised.
C15_SkipUnlessForced ==
    /\ \A k \in 1..Len(handled) :
          LET h == handled[k]
              t == handled[k].table
          IN  /\ (~force_reexport /\ csvAtRun[t] # 0)
                    => /\ h.outcome = "skipped"
                       /\ ~InvokedFor(t)
                       /\ csv_paths[t] = csvAtRun[t]
              /\ h.outcome = "skipped" => (~force_reexport /\ csvAtRun[t] # 0)
              /\ force_reexport
                    => /\ h.outcome # "skipped"
                       /\ h.cause # "exception" => InvokedFor(t)
    /\ successful_exports = OutcomeCount("skipped") + OutcomeCount("succeeded")
C15_Witness ==
    /\ RunEnded
    /\ run = "second"
    /\ ~force_reexport
    /\ invocations # <<>>
    /\ \E k \in 1..Len(handled) :
          /\ handled[k].outcome = "skipped"
          /\ column_mappings[handled[k].table] = IdMapping
          /\ files[csv_paths[handled[k].table]][1] = HeaderLine(MappingKeys(NameMapping))

\* ------------------------------------------------------------------ C16
\* C16: the run goes through the tables in their order, one per iteration,
\* whatever the outcome of the one before; a table for which the engine
\* returned False or an exception was raised is in the failure list, was
\* handled once and had the engine called for it at most once; when the run
\* has ended, the final status is set and every table has been handled.
C16_FailureDoesNotStopTheRun ==
    /\ Len(handled) <= Len(tables_with_mappings)
    /\ \A k \in 1..Len(handled) : handled[k].table = tables_with_mappings[k][1]
    /\ bpc = "loop" => index = Len(handled) + 1
    /\ \A k \in 1..Len(handled) :
          handled[k].outcome = "failed"
            => /\ Contains(failed_exports, handled[k].table)
               /\ \A j \in 1..Len(handled) : handled[j].table = handled[k].table => j = k
               /\ Cardinality({j \in 1..Len(invocations) :
                                   invocations[j].table = handled[k].table})
                    = IF handled[k].cause = "engine" THEN 1 ELSE 0
    /\ RunEnded => (status # "none" /\ Len(handled) = Len(tables_with_mappings))
C16_Witness ==
    /\ RunEnded
    /\ Len(handled) = 3
    /\ handled[1].cause = "exception"
    /\ handled[2].cause = "engine"
    /\ handled[3].outcome = "succeeded"
    /\ failed_exports = <<TargetTables[1], TargetTables[2]>>

\* ------------------------------------------------------------------ C17
\* C17: every engine call of a bulk run is made with the table's source
\* columns, its target columns and the transformations configured for that
\* table on the page.
C17_ConfiguredTransformationsPassed ==
    bpc = "loop"
        => \A k \in 1..Len(invocations) :
              LET call == invocations[k]
              IN  /\ call.columns = MappingValues(column_mappings[call.table])
                  /\ call.target_columns = MappingKeys(column_mappings[call.table])
                  /\ call.transformations = page_transformations[call.table]

\* ------------------------------------------------------------------ C18
\* C18: a table for which the engine returned True in the current run has
\* as its record the file of that call, a file created by the run (not the
\* one recorded before) that starts with the table's target columns, and the
\* table is counted among the successful exports.
C18_SuccessRecorded ==
    \A k \in 1..Len(invocations) :
        LET call == invocations[k]
        IN  call.ret = "True"
              => /\ csv_paths[call.table] = call.output_path
                 /\ call.output_path # csvAtRun[call.table]
                 /\ \A t \in Tables : csvAtRun[t] < call.output_path
                 /\ files[call.output_path][1] = HeaderLine(call.target_columns)
                 /\ \E j \in 1..Len(handled) :
                       handled[j] = [table |-> call.table, outcome |-> "succeeded",
                                     cause |-> ""]
                 /\ successful_exports >= OutcomeCount("succeeded")
                 /\ OutcomeCount("succeeded")
                      = Cardinality({j \in 1..Len(invocations) : invocations[j].ret = "True"})
C18_Witness ==
    /\ RunEnded
    /\ force_reexport
    /\ \E k \in 1..Len(invocations) :
          /\ invocations[k].ret = "True"
          /\ csvAtRun[invocations[k].table] # 0
          /\ csv_paths[invocations[k].table] = invocations[k].output_path
          /\ invocations[k].target_columns = MappingKeys(IdMapping)
          /\ files[csvAtRun[invocations[k].table]][1] = HeaderLine(MappingKeys(NameMapping))

\* ------------------------------------------------------------------ C19
\* C19: when a run over a non-empty table list has ended, its status is
\* AllSucceeded exactly when no table failed (skipped tables count as
\* succeeded), AllFailed exactly when every table failed and PartialSuccess
\* otherwise, and the failure list names the failed tables in their order.
C19_RunOutcome ==
    RunEnded
        => /\ tables_with_mappings # <<>>
           /\ status = "AllSucceeded" <=> OutcomeCount("failed") = 0
           /\ status = "AllFailed" <=> OutcomeCount("failed") = Len(handled)
           /\ status = "PartialSuccess"
                <=> (0 < OutcomeCount("failed") /\ OutcomeCount("failed") < Len(handled))
           /\ status \in {"AllSucceeded", "AllFailed", "PartialSuccess"}
           /\ failed_exports
                = [j \in 1..OutcomeCount("failed") |->
                      SelectSeq(handled, LAMBDA h : h.outcome = "failed")[j].table]
C19_Witness ==
    /\ RunEnded
    /\ Len(handled) = 3
    /\ handled[1].outcome = "succeeded"
    /\ handled[2].outcome = "succeeded"
    /\ handled[3].outcome = "failed"
    /\ status = "PartialSuccess"
    /\ failed_exports = <<TargetTables[3]>>

\* ------------------------------------------------------------------ C20
\* C20: during a run no table is handled twice and every handled table is
\* either counted as successful (exported or skipped) or in the failure
\* list, never both: the counter plus the length of the list is the number
\* of tables handled, and at the end the number of input tables; a failed
\* table is in the list once, any other table not at all.
C20_OneTerminalStatePerTable ==
    /\ \A j, k \in 1..Len(handled) : handled[j].table = handled[k].table => j = k
    /\ successful_exports + Len(failed_exports) = Len(handled)
    /\ RunEnded => successful_exports + Len(failed_exports) = Len(tables_with_mappings)
    /\ \A k \in 1..Len(handled) :
          Cardinality({j \in 1..Len(failed_exports) : failed_exports[j] = handled[k].table})
            = IF handled[k].outcome = "failed" THEN 1 ELSE 0
    /\ \A j \in 1..Len(failed_exports) :
          \E k \in 1..Len(handled) : handled[k].table = failed_exports[j]
C20_Witness ==
    /\ RunEnded
    /\ Len(handled) = 3
    /\ handled[1].outcome = "skipped"
    /\ handled[2].outcome = "succeeded"
    /\ handled[3].outcome = "failed"
    /\ successful_exports = 2
    /\ failed_exports = <<TargetTables[3]>>

\* ------------------------------------------------------------------ C21
\* C21: while no table has a column mapping the page offers no bulk export
\* (neither button can be pressed, so nothing is exported and nothing is
\* reported), and no run ever goes over an empty table list: a run that
\* reports AllSucceeded, PartialSuccess or AllFailed had tables.
C21_EmptySetIsNoOp ==
    /\ (bpc = "page" /\ TablesWithMappings = <<>>)
          => (~ENABLED ExportAll /\ ~ENABLED ReExportAll)
    /\ run # "none" => tables_with_mappings # <<>>
    /\ status # "none" => tables_with_mappings # <<>>
C21_Witness ==
    /\ RunEnded
    /\ TablesWithMappings = <<>>
    /\ AlreadyExportedTables # {}
    /\ status = "AllSucceeded"

\* ------------------------------------------------------------------ C22
\* C22: in a forced run, a table that had an export record and for which
\* the engine returns True is recorded with a file other than the earlier
\* one, whose header is the target columns of its present mapping and whose
\* lines after the header are the rows of the table as they are now, each as
\* wide as the present mapping; the earlier file is left as it was.
C22_ReExportReflectsSecondMapping ==
    (force_reexport /\ bpc = "loop")
        => \A k \in 1..Len(invocations) :
              LET call == invocations[k]
                  mapping == column_mappings[call.table]
                  exported == files[csv_paths[call.table]]
              IN  (call.ret = "True" /\ csvAtRun[call.table] # 0)
                    => /\ csv_paths[call.table] # csvAtRun[call.table]
                       /\ exported[1] = HeaderLine([j \in 1..Len(mapping) |-> mapping[j][1]])
                       /\ Len(exported) = 1 + Len(tableRows)
                       /\ \A r \in 1..Len(tableRows) :
                             /\ exported[r + 1].kind = "row"
                             /\ Len(exported[r + 1].cells) = Len(mapping)
                             /\ exported[r + 1].cells[1] = Text(tableRows[r][1])
C22_Witness ==
    /\ force_reexport
    /\ bpc = "loop"
    /\ \E k \in 1..Len(invocations) :
          /\ invocations[k].ret = "True"
          /\ csvAtRun[invocations[k].table] # 0
          /\ column_mappings[invocations[k].table] = IdMapping
          /\ files[csvAtRun[invocations[k].table]][1] = HeaderLine(<<"id_produit", "nom_produit">>)
          /\ files[csv_paths[invocations[k].table]]
                = <<HeaderLine(<<"id_produit">>), [kind |-> "row", cells |-> <<RowIds[1]>>]>>

\* ------------------------------------------------------------------ C26
\* C26 as stated: whenever the mapping form is shown, some selection that
\* gives one source table to two expected tables can be saved.
C26_DuplicateSelectionCanBeSaved ==
    (bpc = "page" /\ source_tables # <<>>)
        => \E sel \in Selections :
              /\ \E j, k \in 1..Len(sel) : j # k /\ sel[j] = sel[k] /\ sel[j] # "None"
              /\ ENABLED SaveMapping(sel)
\* C26, amended: the saved table mapping never gives one source table to two
\* expected tables (nor one expected table two entries), and every source
\* table in it is a table that was discovered.
C26_NoSourceTableMappedTwice ==
    /\ \A j, k \in 1..Len(table_mapping) :
          (table_mapping[j][2] = table_mapping[k][2]
             \/ table_mapping[j][1] = table_mapping[k][1]) => j = k
    /\ \A k \in 1..Len(table_mapping) :
          /\ table_mapping[k][2] # "None"
          /\ table_mapping[k][2] \in ToSet(source_tables)
C26_Witness ==
    /\ Len(table_mapping) = 2
    /\ table_mapping[1] = <<TargetTables[1], SourceTables[2]>>
    /\ table_mapping[2] = <<TargetTables[3], SourceTables[1]>>

\* ------------------------------------------------------------------ C28
\* C28: a table that failed in a run (the engine returned False, or an
\* exception was raised) has the record it had when the run began and is in
\* the failure list; a record that differs from the one at the start of
\* the run is the output file of an engine call of this run that returned True.
C28_FailureKeepsPriorRecord ==
    /\ \A k \in 1..Len(handled) :
          handled[k].outcome = "failed"
            => /\ csv_paths[handled[k].table] = csvAtRun[handled[k].table]
               /\ Contains(failed_exports, handled[k].table)
    /\ \A t \in DOMAIN csv_paths :
          csv_paths[t] # csvAtRun[t]
            => \E k \in 1..Len(invocations) :
                  /\ invocations[k].table = t
                  /\ invocations[k].ret = "True"
                  /\ invocations[k].output_path = csv_paths[t]
C28_Witness ==
    /\ RunEnded
    /\ force_reexport
    /\ \E k \in 1..Len(handled) :
          /\ handled[k].outcome = "failed"
          /\ Contains(failed_exports, handled[k].table)
          /\ csvAtRun[handled[k].table] # 0
          /\ csv_paths[handled[k].table] = csvAtRun[handled[k].table]
          /\ Len(files[csv_paths[handled[k].table]]) = 2

\* ------------------------------------------------------------------ C29
\* C29: every engine call of a bulk run has a non-empty source column list
\* and as many target columns as source columns, and none fails with
\* NoColumnsMapped or ColumnCountMismatch.
C29_EngineCallsWellFormed ==
    \A k \in 1..Len(invocations) :
       /\ invocations[k].columns # <<>>
       /\ Len(invocations[k].columns) = Len(invocations[k].target_columns)
       /\ \A j \in 1..Len(invocations[k].log) :
             invocations[k].log[j][2] \notin {"NoColumnsMapped", "ColumnCountMismatch"}
C29_Witness ==
    /\ RunEnded
    /\ Len(table_mapping) = MaxTables
    /\ column_mappings[table_mapping[1][1]] = NoMapping
    /\ Len(handled) = MaxTables - 1
    /\ Len(invocations) = MaxTables - 1
    /\ \E k \in 1..Len(invocations) : invocations[k].ret = "False"

\* ------------------------------------------------------------------ C30
\* C30: a step of clear_connection removes the connection, the discovered
\* tables and the table mapping and leaves the export records and the
\* column mappings as they were; and a step of a non-forced run at a table
\* that has a record, whichever database it was exported from, skips the
\* table: no engine call, the record and the files unchanged.
C30_ClearKeepsExportRecords ==
    [][/\ ClearConnection
            => /\ source_engine' = "None"
               /\ source_tables' = <<>>
               /\ table_mapping' = <<>>
               /\ csv_paths' = csv_paths
               /\ column_mappings' = column_mappings
       /\ (/\ bpc = "loop"
           /\ index' = index + 1
           /\ ~force_reexport
           /\ csv_paths[tables_with_mappings[index][1]] # 0)
            => /\ handled' = Append(handled, [table |-> tables_with_mappings[index][1],
                                             outcome |-> "skipped", cause |-> ""])
               /\ invocations' = invocations
               /\ csv_paths' = csv_paths
               /\ files' = files]_vars
C30_Witness ==
    /\ RunEnded
    /\ ~force_reexport
    /\ source_engine = Databases[2]
    /\ tableRows = <<>>
    /\ \E k \in 1..Len(handled) :
          /\ handled[k].outcome = "skipped"
          /\ files[csv_paths[handled[k].table]]
                = <<HeaderLine(<<"id_produit", "nom_produit">>),
                    [kind |-> "row", cells |-> <<RowIds[1], "">>]>>

\* ------------------------------------------------------------------ C23
\* C23: the query of a call quotes the table name and every selected column
\* with the style of the engine's dialect (backticks for sqlite and mysql,
\* double quotes for postgresql, square brackets for any other), and selects
\* the source columns that exist in the table, in the order of the call's
\* list; a call that reaches the loop has built its query.
C23_QueryQuoting ==
    LET opening == CASE dialect \in {"sqlite", "mysql"} -> "backtick"
                     [] dialect = "postgresql" -> "double quote"
                     [] OTHER -> "["
        closing == CASE dialect \in {"sqlite", "mysql"} -> "backtick"
                     [] dialect = "postgresql" -> "double quote"
                     [] OTHER -> "]"
        kept == SelectSeq(columns, Present)
    IN  /\ pc \in {"loop", "body", "after"} => query # NoQuery
        /\ query # NoQuery
             => /\ kept # <<>>
                /\ query.from = <<opening, TableName, closing>>
                /\ query.select = [k \in 1..Len(kept) |-> <<opening, kept[k], closing>>]
C23_Witness ==
    /\ Returned
    /\ ret = "True"
    /\ dialect = "mssql"
    /\ columns = <<"cost", "id">>
    /\ query = [select |-> << <<"[", "id", "]">> >>, from |-> <<"[", "produits", "]">>]
    /\ Len(fileLines) = 2

\* ------------------------------------------------------------------ C24
\* C24 as stated: a call always returns True or False, and returns False
\* whenever an exception was raised during it, in a transformation included.
C24_EveryExceptionFailsTheCall ==
    /\ ret \in {"none", "True", "False"}
    /\ (Returned
          /\ \E j \in 1..Len(log) : log[j][2] \in {"ExportError", "TransformationError"})
          => ret = "False"
\* C24, amended: a call always returns True or False; once an exception
\* reached the handler of transform_and_export (from the introspection, the
\* query, apply_transformations as a whole, the rename or the file write) the
\* call has ended, returned False and logged the error last.
C24_NeverRaises ==
    /\ ret \in {"none", "True", "False"}
    /\ Returned => ret \in {"True", "False"}
    /\ (\E j \in 1..Len(log) : log[j][2] = "ExportError")
          => (Returned /\ ret = "False" /\ LastMessage = "ExportError")
C24_Witness ==
    /\ Returned
    /\ ret = "False"
    /\ log[Len(log)] = <<"error", "ExportError", "write">>
    /\ fileAtCall.lines = StaleFile
    /\ fileLines = <<>>
    /\ Len(consumed) = 1

\* ------------------------------------------------------------------ C25
\* C25: a batch is held only inside the loop body, and it is the batch
\* fetched last; every non-empty batch fetched before it has been
\* transformed and written, in the order fetched, so the batches fetched
\* exceed the batches written by at most the one being held.
C25_BatchesAlternate ==
    LET fetched == SelectSeq(consumed, LAMBDA b : b.rows # <<>>)
    IN  /\ pc # "body" => df = NoFrame
        /\ pc = "body" => (consumed # <<>> /\ df = consumed[Len(consumed)])
        /\ Len(fetched) = Len(processed) + (IF pc = "body" /\ df.rows # <<>> THEN 1 ELSE 0)
        /\ \A k \in 1..Len(processed) : processed[k].in = fetched[k]
        /\ (pc \in {"loop", "body", "after"} /\ processed # <<>>) => RowsWritten
C25_Witness ==
    /\ pc = "body"
    /\ Len(consumed) = 2
    /\ Len(processed) = 1
    /\ chunks = <<>>
    /\ df.rows # <<>>
    /\ Len(fileLines) = 2

\* ------------------------------------------------------------------ C27
\* C27: every batch leaves apply_transformations as the result of its
\* transformations applied one after the other, each to the result of the
\* one before; so with the fill of a column followed by its cast to int the
\* cells that were null are null again, and with the cast followed by the
\* fill they are filled.
C27_LeftToRightComposition ==
    \A b \in 1..Len(processed) :
       LET pin == processed[b].in
           pout == processed[b].out
           i == IndexOf(pin.columns, "name")
       IN  /\ pout = Stage(pin, Len(transformations))
           /\ (Contains(pin.columns, "name")
                 /\ transformations = <<FillNa("name", FillValue), TypeCast("name", "int")>>)
                => \A r \in 1..Len(pin.rows) :
                      IsNull(pin.rows[r][i]) => IsNull(pout.rows[r][i])
           /\ (Contains(pin.columns, "name")
                 /\ transformations = <<TypeCast("name", "int"), FillNa("name", FillValue)>>)
                => \A r \in 1..Len(pin.rows) :
                      IsNull(pin.rows[r][i]) => ~IsNull(pout.rows[r][i])

====
